---- MODULE Spec2Model ----
(***************************************************************************)
(* A model of the measurement classes of kid_readout/measurement/basic.py: *)
(* RoachMeasurement, RoachStream, StreamArray, SingleStream, SweepArray,   *)
(* SingleSweep, SweepStreamArray and SingleSweepStream.                    *)
(*                                                                         *)
(* Times are integers (ticks); the sample period 1 / stream_sample_rate of *)
(* a stream is a whole number of ticks, so that sample i of a stream is    *)
(* taken at epoch + i * period.  Floating-point rounding is not modelled.  *)
(***************************************************************************)
EXTENDS Integers, Sequences, FiniteSets, TLC

VARIABLES
    stream,        \* SpecEpochs: the RoachStream that epochs() is called on
    calls,         \* SpecEpochs: the epochs() calls made so far, with their results
    measurement,   \* SpecStartEpoch: a RoachMeasurement and the nodes it contains
    returned,      \* SpecStartEpoch: what measurement.start_epoch() returned or raised
    sweep,         \* SpecPipeline: the private attributes of the SingleSweep
    sss,           \* SpecPipeline: the private attributes of the SingleSweepStream
    fits,          \* SpecPipeline: the resonator objects made so far, by their model
    parent,        \* SpecPipeline: whether sweep._parent is the SingleSweepStream
    userFits,      \* SpecPipeline: the number of fit_resonator calls made by the user
    lastReturn,    \* SpecPipeline: the last fit_resonator() or resonator result
    sweep_array,   \* SpecSweep: a SweepArray or SingleSweep: its streams and memoized properties
    num_channels_read, \* SpecSweep: what the last read of num_channels returned or raised
    ssa,           \* SpecSweepStream: the SweepStreamArray in use, if one was made
    ssa_last,      \* SpecSweepStream: the last constructor or epochs() call and its outcome
    item,          \* SpecStream: the last stream_array[number] and its outcome
    samples,       \* SpecSpectra: size and sample rate of the stream of a SingleSweepStream
    spectra,       \* SpecSpectra: the _S_ attributes set_S stored
    glitchy,       \* SpecDeglitch: a SingleSweepStream, its time series and deglitching attributes
    deglitch_last  \* SpecDeglitch: the last operation on it, and how deglitch() ran

varsEpochs == <<stream, calls>>
varsStartEpoch == <<measurement, returned>>
varsPipeline == <<sweep, sss, fits, parent, userFits, lastReturn>>

varsSweep == <<sweep_array, num_channels_read>>
varsSweepStream == <<ssa, ssa_last>>
varsStream == <<item>>
varsSpectra == <<samples, spectra>>
varsDeglitch == <<glitchy, deglitch_last>>

vars == <<varsEpochs, varsStartEpoch, varsPipeline, varsSweep, varsSweepStream, varsStream, varsSpectra, varsDeglitch>>

notEpochs == <<varsStartEpoch, varsPipeline, varsSweep, varsSweepStream, varsStream, varsSpectra, varsDeglitch>>
notStartEpoch == <<varsEpochs, varsPipeline, varsSweep, varsSweepStream, varsStream, varsSpectra, varsDeglitch>>
notPipeline == <<varsEpochs, varsStartEpoch, varsSweep, varsSweepStream, varsStream, varsSpectra, varsDeglitch>>
notSweep == <<varsEpochs, varsStartEpoch, varsPipeline, varsSweepStream, varsStream, varsSpectra, varsDeglitch>>
notSweepStream == <<varsEpochs, varsStartEpoch, varsPipeline, varsSweep, varsStream, varsSpectra, varsDeglitch>>
notStream == <<calls, varsStartEpoch, varsPipeline, varsSweep, varsSweepStream, varsSpectra, varsDeglitch>>
notSpectra == <<varsEpochs, varsStartEpoch, varsPipeline, varsSweep, varsSweepStream, varsStream, varsDeglitch>>
notDeglitch == <<varsEpochs, varsStartEpoch, varsPipeline, varsSweep, varsSweepStream, varsStream, varsSpectra>>

-----------------------------------------------------------------------------
(* Bounds *)

MaxEpoch    == 1    \* epochs of the streams are 0..MaxEpoch
MaxPeriod   == 2    \* sample periods are 1..MaxPeriod ticks
MaxSamples  == 3    \* a stream holds 0..MaxSamples samples per channel
MaxChannels == 2    \* a StreamArray holds 1..MaxChannels channels
MaxTime     == 6    \* start and stop arguments are 0..MaxTime
MaxCalls    == 2    \* epochs() calls recorded
MaxNodes    == 2    \* public Node attributes of a measurement without epoch
MaxMembers  == 2    \* members of a MeasurementList
MaxFits     == 3    \* resonator fits made on one sweep
MaxTones    == 3    \* tones of a sweep, over all its streams
MaxBin      == 2    \* tone bins are 1..MaxBin
MaxSize     == 70   \* samples of the stream whose spectra are taken
MaxRate     == 3    \* stream sample rates are 1..MaxRate
MaxSeries   == 3    \* samples of the time series that is deglitched

-----------------------------------------------------------------------------
(* Helpers standing for numpy and Python built-ins *)

\* None and numpy.nan: two values that are no epoch, count or index of the
\* model (those are all >= 0)
None == -2
NaN  == -1

\* The objects a specification does not use do not exist
IdleEpochs == stream = None /\ calls = <<>>
IdleStartEpoch == measurement = None /\ returned = None
IdlePipeline ==
    /\ sweep = None /\ sss = None /\ fits = <<>>
    /\ parent = FALSE /\ userFits = 0 /\ lastReturn = None
IdleSweep == sweep_array = None /\ num_channels_read = None
IdleSweepStream == ssa = None /\ ssa_last = None
IdleStream == item = None
IdleSpectra == samples = None /\ spectra = None
IdleDeglitch == glitchy = None /\ deglitch_last = None

Range(s) == {s[i] : i \in DOMAIN s}

\* a[lo:hi] for 0 <= lo, hi <= len(a): empty when hi <= lo
PySlice(a, lo, hi) == SubSeq(a, lo + 1, hi)

\* numpy.searchsorted(a, (v,), side)[0] for an ascending a: the insertion
\* index that keeps a sorted, before (left) or after (right) entries equal to v
SearchSorted(a, v, side) ==
    IF side = "left"
    THEN Cardinality({i \in DOMAIN a : a[i] < v})
    ELSE Cardinality({i \in DOMAIN a : a[i] <= v})

-----------------------------------------------------------------------------
(* RoachStream *)

\* The samples of channel ch: sample k (counted from 0 in the stream that was
\* acquired) is the record [ch, k], so that a sample keeps its identity in
\* every slice.
Row(ch, n) == [i \in 1..n |-> [ch |-> ch, k |-> i - 1]]

\* RoachStream.__init__ / StreamArray.__init__ / SingleStream.__init__: the
\* fields of a stream.  cls is the class of the object; s21_raw is a sequence
\* of rows for a StreamArray and one row for a SingleStream.  roach_state
\* holds what calculate.stream_sample_rate reads, here as the sample period.
RoachStream(cls, tone_bin, tone_amplitude, tone_phase, tone_index, filterbank_bin, epoch, sequence_start_number, s21_raw, data_demodulated, roach_state, number, state, description) ==
    [class |-> cls, tone_bin |-> tone_bin, tone_amplitude |-> tone_amplitude,
     tone_phase |-> tone_phase, tone_index |-> tone_index,
     filterbank_bin |-> filterbank_bin, epoch |-> epoch,
     sequence_start_number |-> sequence_start_number, s21_raw |-> s21_raw,
     data_demodulated |-> data_demodulated, roach_state |-> roach_state,
     number |-> number, state |-> state, description |-> description]

\* s21_raw.shape[-1]
NumSamples(s) ==
    IF s.class = "StreamArray" THEN Len(s.s21_raw[1]) ELSE Len(s.s21_raw)

\* RoachStream.sample_time: arange(s21_raw.shape[-1]) / stream_sample_rate
sample_time(s) == [i \in 1..NumSamples(s) |-> (i - 1) * s.roach_state.period]

\* self.epoch + self.sample_time
SampleEpochs(s) == [i \in 1..NumSamples(s) |-> s.epoch + sample_time(s)[i]]

\* s21_raw[..., lo:hi]
SliceLastAxis(s, lo, hi) ==
    IF s.class = "StreamArray"
    THEN [c \in DOMAIN s.s21_raw |-> PySlice(s.s21_raw[c], lo, hi)]
    ELSE PySlice(s.s21_raw, lo, hi)

\* RoachStream.epochs(start, stop): the new stream, or IndexError when
\* sample_time[start_index] does not exist
epochs(s, start, stop) ==
    LET start_index == SearchSorted(SampleEpochs(s), start, "left")
        stop_index  == SearchSorted(SampleEpochs(s), stop, "right")
    IN  IF start_index >= NumSamples(s)
        THEN [tag |-> "IndexError"]
        ELSE [tag |-> "ok",
              value |-> RoachStream(s.class, s.tone_bin, s.tone_amplitude, s.tone_phase,
                                    s.tone_index, s.filterbank_bin,
                                    s.epoch + sample_time(s)[start_index + 1],
                                    NaN,
                                    SliceLastAxis(s, start_index, stop_index),
                                    s.data_demodulated, s.roach_state,
                                    IF s.class = "SingleStream" THEN None ELSE s.number,
                                    s.state, s.description)]

-----------------------------------------------------------------------------
(* SpecEpochs: epochs() called on one stream *)

\* A StreamArray of nch channels and a SingleStream, as acquired
NewStreamArray(nch, epoch, period, n) ==
    RoachStream("StreamArray", [c \in 1..nch |-> 100 + c], [c \in 1..nch |-> 1],
                [c \in 1..nch |-> 0], [c \in 1..nch |-> c - 1],
                [c \in 1..nch |-> 10 + c], epoch, 0,
                [c \in 1..nch |-> Row(c - 1, n)], TRUE, [period |-> period],
                None, "state", "description")

NewSingleStream(epoch, period, n) ==
    RoachStream("SingleStream", <<101>>, <<1>>, <<0>>, 0, 11, epoch, 0,
                Row(0, n), TRUE, [period |-> period], None, "state", "description")

InitEpochs ==
    /\ IdleStartEpoch /\ IdlePipeline /\ IdleSweep /\ IdleSweepStream /\ IdleStream /\ IdleSpectra /\ IdleDeglitch
    /\ \E e \in 0..MaxEpoch, p \in 1..MaxPeriod, n \in 0..MaxSamples :
          \/ \E nch \in 1..MaxChannels : stream = NewStreamArray(nch, e, p, n)
          \/ stream = NewSingleStream(e, p, n)
    /\ calls = <<>>

\* stream.epochs(start, stop)
CallEpochs(start, stop) ==
    /\ Len(calls) < MaxCalls
    /\ calls' = Append(calls, [start |-> start, stop |-> stop,
                               result |-> epochs(stream, start, stop)])
    /\ UNCHANGED <<stream, notEpochs>>

NextEpochs == \E start \in 0..MaxTime, stop \in 0..MaxTime : CallEpochs(start, stop)

\* The samples (of the first channel) a stream holds, and those of the stream
\* whose epoch lies in a given set of times
FirstRow(s) == IF s.class = "StreamArray" THEN s.s21_raw[1] ELSE s.s21_raw

SamplesWithin(s, lo, hi, closed) ==
    {FirstRow(s)[i] : i \in {j \in 1..NumSamples(s) :
        /\ lo <= SampleEpochs(s)[j]
        /\ IF closed THEN SampleEpochs(s)[j] <= hi ELSE SampleEpochs(s)[j] < hi}}

\* C1: every stream returned by epochs(start, stop) holds exactly the samples
\* with start <= epoch + sample_time[i] < stop, in their order, so a sample
\* taken at stop is left out.
C1_StopExclusive ==
    \A c \in Range(calls) :
        c.result.tag = "ok" =>
            /\ Range(FirstRow(c.result.value)) = SamplesWithin(stream, c.start, c.stop, FALSE)
            /\ Len(FirstRow(c.result.value)) = Cardinality(SamplesWithin(stream, c.start, c.stop, FALSE))

\* What the code does instead: the interval is closed at stop.
EpochsStopInclusive ==
    \A c \in Range(calls) :
        c.result.tag = "ok" =>
            /\ Range(FirstRow(c.result.value)) = SamplesWithin(stream, c.start, c.stop, TRUE)
            /\ Len(FirstRow(c.result.value)) = Cardinality(SamplesWithin(stream, c.start, c.stop, TRUE))

\* C2: for t0 <= t1 <= t2 the slices epochs(t0, t1) and epochs(t1, t2) of one
\* stream together hold every sample taken at or after t0 and before t2, and
\* no sample is in both.
C2_AdjacentSlicesPartition ==
    \A i, j \in DOMAIN calls :
        LET a == calls[i]
            b == calls[j]
        IN  (/\ a.start <= a.stop /\ a.stop = b.start /\ b.start <= b.stop
             /\ a.result.tag = "ok" /\ b.result.tag = "ok")
            => /\ Range(FirstRow(a.result.value)) \cup Range(FirstRow(b.result.value))
                    = SamplesWithin(stream, a.start, b.stop, FALSE)
               /\ Range(FirstRow(a.result.value)) \cap Range(FirstRow(b.result.value)) = {}

-----------------------------------------------------------------------------
(* RoachMeasurement.start_epoch *)

\* A node of a measurement tree.  kind is the class as start_epoch tests it:
\* "RoachMeasurement", "MeasurementList", or "Node" for any other core.Node
\* (a StateDict, a Measurement that is no RoachMeasurement).  epoch is None
\* when the object has no attribute epoch.  nodes are the public attributes
\* that are Nodes (of a measurement) or the members (of a list).
MakeNode(kind, epoch, nodes) == [kind |-> kind, epoch |-> epoch, nodes |-> nodes]

SeqsUpTo(S, n) == UNION {[1..k -> S] : k \in 0..n}

Min(S) == CHOOSE x \in S : \A y \in S : x <= y

Ok(v) == [tag |-> "ok", value |-> v]
Raised(e) == [tag |-> e, value |-> None]

\* numpy.min of a list of floats: ValueError on an empty list, nan when an
\* entry is nan
NpMin(values) ==
    IF Len(values) = 0 THEN Raised("ValueError")
    ELSE IF NaN \in Range(values) THEN Ok(NaN)
    ELSE Ok(Min(Range(values)))

\* RoachMeasurement.start_epoch.  An exception raised while an entry of
\* possible_epochs is computed leaves the method.
RECURSIVE start_epoch(_)
start_epoch(m) ==
    IF m.epoch # None THEN Ok(m.epoch)
    ELSE
        LET IsRoach(n) == n.kind = "RoachMeasurement"
            IsContainer(n) == n.kind \in {"RoachMeasurement", "MeasurementList"}
            Entry(n) ==
                IF IsRoach(n) THEN start_epoch(n)
                ELSE LET found == SelectSeq(n.nodes, IsRoach)
                         each  == [i \in DOMAIN found |-> start_epoch(found[i])]
                     IN  IF \E i \in DOMAIN each : each[i].tag # "ok"
                         THEN Raised("ValueError")
                         ELSE NpMin([i \in DOMAIN each |-> each[i].value])
            used == SelectSeq(m.nodes, IsContainer)
            entries == [i \in DOMAIN used |-> Entry(used[i])]
        IN  IF \E i \in DOMAIN entries : entries[i].tag # "ok"
            THEN Raised("ValueError")
            ELSE LET possible_epochs == [i \in DOMAIN entries |-> entries[i].value]
                 IN  IF Len(possible_epochs) > 0 THEN NpMin(possible_epochs) ELSE Ok(NaN)

\* The trees: leaves, lists of leaves, measurements holding those, and a
\* measurement without epoch on top
Leaves ==
    {MakeNode("RoachMeasurement", e, <<>>) : e \in (0..MaxEpoch) \cup {None}}
    \cup {MakeNode("Node", None, <<>>)}

ListsOf(S) == {MakeNode("MeasurementList", None, s) : s \in SeqsUpTo(S, MaxMembers)}

Inner ==
    LET low == Leaves \cup ListsOf(Leaves)
    IN  low \cup {MakeNode("RoachMeasurement", None, <<n>>) : n \in low}

InitStartEpoch ==
    /\ IdleEpochs /\ IdlePipeline /\ IdleSweep /\ IdleSweepStream /\ IdleStream /\ IdleSpectra /\ IdleDeglitch
    /\ \/ \E s \in SeqsUpTo(Inner, MaxNodes) : measurement = MakeNode("RoachMeasurement", None, s)
       \/ \E e \in 0..MaxEpoch, s \in SeqsUpTo(Leaves, 1) :
              measurement = MakeNode("RoachMeasurement", e, s)
    /\ returned = Raised("not called")

\* measurement.start_epoch()
CallStartEpoch ==
    /\ returned = Raised("not called")
    /\ returned' = start_epoch(measurement)
    /\ UNCHANGED <<measurement, notStartEpoch>>

NextStartEpoch == CallStartEpoch

\* The RoachMeasurements a node contains directly or inside its lists
Contained(m) ==
    {m.nodes[i] : i \in {j \in DOMAIN m.nodes : m.nodes[j].kind = "RoachMeasurement"}}
    \cup UNION {{l.nodes[i] : i \in {j \in DOMAIN l.nodes : l.nodes[j].kind = "RoachMeasurement"}} :
                l \in {m.nodes[i] : i \in {j \in DOMAIN m.nodes : m.nodes[j].kind = "MeasurementList"}}}

\* The start epoch the documentation describes: the epoch, or the earliest
\* of the contained start epochs (nan when one of them is nan, as numpy.min
\* has it), or nan when nothing is contained
RECURSIVE Earliest(_)
Earliest(m) ==
    IF m.epoch # None THEN m.epoch
    ELSE LET found == {Earliest(n) : n \in Contained(m)}
         IN  IF found = {} \/ NaN \in found THEN NaN ELSE Min(found)

\* C3: start_epoch() never raises: it returns the epoch when there is one,
\* else the earliest start epoch of the RoachMeasurements contained directly
\* or in MeasurementLists, else nan, also when a contained list is empty or
\* holds no RoachMeasurement.
C3_StartEpochTotal ==
    returned # Raised("not called") => returned = Ok(Earliest(measurement))

\* What the code does when no list it looks into is without a
\* RoachMeasurement: the documented value.
StartEpochWhenNoRaise ==
    returned.tag = "ok" => returned.value = Earliest(measurement)

-----------------------------------------------------------------------------
(* SingleSweep.resonator and the SingleSweepStream analysis pipeline *)

\* The private attributes the code sets on a SingleSweep.  An attribute that
\* is 0 does not exist (hasattr is False).  _resonator holds the number of
\* the fit that made the object (its place in fits).
SweepAttrs == {"_ascending_order", "_frequency", "_s21_point", "_s21_point_error", "_resonator"}

\* The private attributes the pipeline sets on a SingleSweepStream.  Each
\* holds the number of the fit whose resonator it was computed with.
RawAttrs == {"_x_raw", "_q_raw"}
DeglitchAttrs == {"_glitch_mask", "_number_of_masked_samples", "_x", "_q", "_stream_s21_normalized_deglitched"}
SpectralAttrs == {"_S_edges", "_S_counts", "_S_frequency", "_S_qq", "_S_xx", "_S_xq", "_S_xx_variance", "_S_qq_variance", "_S_xq_variance"}
SSSAttrs == RawAttrs \cup DeglitchAttrs \cup SpectralAttrs \cup {"_stream_s21_normalized", "_S_mask"}

\* The attributes "_" + attr with attr in dir(self): those that a property
\* or method of the class is named after.  No S_xq_variance and no S_mask
\* is defined, so these two survive _delete_memoized_property_caches.
SSSDeletable == SSSAttrs \ {"_S_xq_variance", "_S_mask"}

\* The spectral density properties of the class
SpectralProperties == SpectralAttrs \ {"_S_xq_variance"}

\* The resonator models handed to fit_resonator
DefaultModel == "LinearResonatorWithCable"
Models == {DefaultModel, "OtherModel"}

SetAll(f, names, v) == [a \in DOMAIN f |-> IF a \in names THEN v ELSE f[a]]

\* RoachMeasurement._delete_memoized_property_caches on the sweep, and on
\* its parent when it has one
delete_memoized_property_caches(o) ==
    [o EXCEPT !.sweep = SetAll(o.sweep, SweepAttrs, 0),
              !.sss = IF o.parent THEN SetAll(o.sss, SSSDeletable, 0) ELSE o.sss]

\* SingleSweep.fit_resonator(model): the caches go, frequency, s21_point and
\* s21_point_error are read (and memoized) for the new object, which is kept
\* in _resonator
fit_resonator(o, model) ==
    LET d == delete_memoized_property_caches(o)
        read == SetAll(d.sweep, SweepAttrs \ {"_resonator"}, 1)
    IN  [d EXCEPT !.fits = Append(o.fits, model),
                  !.sweep = [read EXCEPT !["_resonator"] = Len(o.fits) + 1]]

\* A mutant: the property is not memoized
resonator_refits(o) == fit_resonator(o, DefaultModel)

\* SingleSweep.resonator (a memoized_property) and SingleSweepStream.resonator:
\* the state after the read; the value read is its sweep._resonator
resonator(o) ==
    IF o.sweep["_resonator"] = 0 THEN fit_resonator(o, DefaultModel) ELSE o

\* SingleSweepStream.stream_s21_normalized (a memoized_property)
stream_s21_normalized(o) ==
    IF o.sss["_stream_s21_normalized"] # 0 THEN o
    ELSE LET r == resonator(o)
         IN  [r EXCEPT !.sss["_stream_s21_normalized"] = r.sweep["_resonator"]]

\* SingleSweepStream.set_raw_q_and_x
set_raw_q_and_x(o) ==
    LET r == resonator(o)
        n == stream_s21_normalized(r)
    IN  [n EXCEPT !.sss = SetAll(n.sss, RawAttrs, r.sweep["_resonator"])]

\* SingleSweepStream.x_raw and q_raw
x_raw(o) == IF o.sss["_x_raw"] = 0 THEN set_raw_q_and_x(o) ELSE o
q_raw(o) == IF o.sss["_q_raw"] = 0 THEN set_raw_q_and_x(o) ELSE o

\* SingleSweepStream.deglitch: whether despike raises or not, the five
\* attributes are set, from x_raw, q_raw and stream_s21_normalized
deglitch(o, raises) ==
    LET x == x_raw(o)
        q == q_raw(x)
        n == stream_s21_normalized(q)
    IN  [n EXCEPT !.sss = SetAll(n.sss, DeglitchAttrs, n.sss["_x_raw"])]

\* SingleSweepStream.x, q, glitch_mask, number_of_masked_samples and
\* stream_s21_normalized_deglitched
deglitched(o, attr, raises) == IF o.sss[attr] = 0 THEN deglitch(o, raises) ELSE o

\* A mutant: the spectra are computed without reading q and x
set_S_blind(o, masked, raises) ==
    [o EXCEPT !.sss = SetAll(o.sss, SpectralAttrs \cup (IF masked THEN {"_S_mask"} ELSE {}), 1)]

\* SingleSweepStream.set_S: psd of self.q and self.x, then the attributes
set_S(o, masked, raises) ==
    LET q == deglitched(o, "_q", raises)
        x == deglitched(q, "_x", raises)
    IN  [x EXCEPT !.sss = SetAll(x.sss, SpectralAttrs \cup (IF masked THEN {"_S_mask"} ELSE {}),
                                 x.sss["_x"])]

\* SingleSweepStream.S_frequency, S_qq, S_xx, ...: set_S() with its defaults
\* when the attribute is missing
spectral(o, attr, raises) == IF o.sss[attr] = 0 THEN set_S(o, FALSE, raises) ELSE o

Objects == [sweep |-> sweep, sss |-> sss, fits |-> fits, parent |-> parent]

\* The variables after an operation that leaves the objects as o
Becomes(o) ==
    /\ Len(o.fits) <= MaxFits
    /\ sweep' = o.sweep
    /\ sss' = o.sss
    /\ fits' = o.fits
    /\ UNCHANGED <<parent, notPipeline>>

InitPipeline ==
    /\ IdleEpochs /\ IdleStartEpoch /\ IdleSweep /\ IdleSweepStream /\ IdleStream /\ IdleSpectra /\ IdleDeglitch
    /\ sweep = [a \in SweepAttrs |-> 0]
    /\ sss = [a \in SSSAttrs |-> 0]
    /\ fits = <<>>
    /\ parent \in BOOLEAN
    /\ userFits = 0
    /\ lastReturn = [op |-> "none", value |-> 0]

\* sweep.fit_resonator(model)
CallFitResonator(model) ==
    LET o == fit_resonator(Objects, model)
    IN  /\ Becomes(o)
        /\ userFits' = userFits + 1
        /\ lastReturn' = [op |-> "fit_resonator", value |-> o.sweep["_resonator"]]

\* sweep.resonator or sss.resonator
ReadResonator ==
    LET o == resonator(Objects)
    IN  /\ Becomes(o)
        /\ lastReturn' = [op |-> "resonator", value |-> o.sweep["_resonator"]]
        /\ UNCHANGED userFits

\* sss.x_raw, sss.q_raw
ReadRaw ==
    /\ \/ Becomes(x_raw(Objects))
       \/ Becomes(q_raw(Objects))
    /\ UNCHANGED <<userFits, lastReturn>>

\* sss.set_raw_q_and_x()
CallSetRawQAndX ==
    /\ Becomes(set_raw_q_and_x(Objects))
    /\ UNCHANGED <<userFits, lastReturn>>

\* sss.deglitch()
CallDeglitch(raises) ==
    /\ Becomes(deglitch(Objects, raises))
    /\ UNCHANGED <<userFits, lastReturn>>

\* sss.x, sss.q, sss.glitch_mask, ...
ReadDeglitched(attr, raises) ==
    /\ Becomes(deglitched(Objects, attr, raises))
    /\ UNCHANGED <<userFits, lastReturn>>

\* sss.set_S(masking_function=...)
CallSetS(masked, raises) ==
    /\ Becomes(set_S(Objects, masked, raises))
    /\ UNCHANGED <<userFits, lastReturn>>

\* sss.S_xx, sss.S_frequency, ...
ReadSpectral(attr, raises) ==
    /\ Becomes(spectral(Objects, attr, raises))
    /\ UNCHANGED <<userFits, lastReturn>>

NextPipeline ==
    \/ \E model \in Models : CallFitResonator(model)
    \/ ReadResonator
    \/ ReadRaw
    \/ CallSetRawQAndX
    \/ \E raises \in BOOLEAN : CallDeglitch(raises)
    \/ \E attr \in DeglitchAttrs, raises \in BOOLEAN : ReadDeglitched(attr, raises)
    \/ \E masked \in BOOLEAN, raises \in BOOLEAN : CallSetS(masked, raises)
    \/ \E attr \in SpectralProperties, raises \in BOOLEAN : ReadSpectral(attr, raises)

Exists(attrs) == \A a \in attrs : sss[a] # 0

\* C4: the pipeline runs resonator fit, inversion, deglitching, spectral
\* densities in this order: a spectral density property is stored only while
\* the deglitched series, x_raw and q_raw are stored, the deglitched series
\* only while x_raw and q_raw are, and x_raw and q_raw only once the sweep's
\* resonator has been fitted.
C4_PipelineOrder ==
    /\ (\E a \in SpectralProperties : sss[a] # 0) => Exists(DeglitchAttrs \cup RawAttrs)
    /\ (\E a \in DeglitchAttrs : sss[a] # 0) => Exists(RawAttrs)
    /\ (\E a \in RawAttrs : sss[a] # 0) =>
            /\ Len(fits) >= 1
            /\ sweep["_resonator"] # 0
            /\ \A b \in RawAttrs : sss[b] \in 1..Len(fits)

\* C4's case: the first read of a spectral density, on untouched objects,
\* has run every stage
C4_Witness ==
    /\ userFits = 0 /\ Len(fits) = 1 /\ lastReturn.op = "none"
    /\ Exists(SpectralProperties \cup DeglitchAttrs \cup RawAttrs)

\* C5: resonator is the object of the most recent fit; a fit_resonator call
\* or a read of resonator returns that object; and while the user has not
\* called fit_resonator, reading resonator fits once, with the default
\* model, however often it is read.
C5_ResonatorIsLastFit ==
    /\ sweep["_resonator"] # 0 => sweep["_resonator"] = Len(fits)
    /\ lastReturn.op # "none" => lastReturn.value = Len(fits) /\ Len(fits) >= 1
    /\ Len(fits) >= 1 => sweep["_resonator"] # 0
    /\ userFits = 0 => Len(fits) <= 1 /\ \A i \in DOMAIN fits : fits[i] = DefaultModel
    /\ Len(fits) <= userFits + 1
    /\ Len(fits) = userFits + 1 => fits[1] = DefaultModel

\* C5's case: resonator read after two fits of which the user called at
\* least one with another model
C5_Witness ==
    /\ lastReturn = [op |-> "resonator", value |-> Len(fits)]
    /\ Len(fits) >= 2 /\ userFits >= 1
    /\ fits[Len(fits)] # DefaultModel

-----------------------------------------------------------------------------
(* SweepArray and SingleSweep: num_channels and the properties in ascending
   frequency order *)

\* a[n] for a Python index n >= 0
At(a, n) == a[n + 1]

\* RoachStream.frequency: calculate.frequency(roach_state, tone_bin[tone_index]),
\* one value per tone of a StreamArray and a single value for a SingleStream.
\* calculate.frequency is taken as the tone bin itself: any function of the
\* bin gives each tone one frequency.
frequency(s) ==
    IF s.class = "StreamArray"
    THEN [c \in DOMAIN s.tone_index |-> At(s.tone_bin, s.tone_index[c])]
    ELSE At(s.tone_bin, s.tone_index)

\* RoachStream.s21_raw_mean and s21_raw_mean_error of one row of samples: the
\* statistic is kept as a value that names the row it was computed from
MeanOf(row) == [of |-> "nanmean", row |-> row]
ErrorOf(row) == [of |-> "nanstd / sqrt(n)", row |-> row]

\* RoachStream.s21_point and s21_point_error
s21_point_of(s) ==
    IF s.class = "StreamArray" THEN [c \in DOMAIN s.s21_raw |-> MeanOf(s.s21_raw[c])]
    ELSE MeanOf(s.s21_raw)
s21_point_error_of(s) ==
    IF s.class = "StreamArray" THEN [c \in DOMAIN s.s21_raw |-> ErrorOf(s.s21_raw[c])]
    ELSE ErrorOf(s.s21_raw)

\* np.concatenate / np.vstack over the stream arrays of a SweepArray, and
\* np.array / np.vstack over the streams of a SingleSweep: one entry per tone
RECURSIVE Flatten(_)
Flatten(seqs) == IF seqs = <<>> THEN <<>> ELSE Head(seqs) \o Flatten(Tail(seqs))

Gather(sw, values) == IF sw.class = "SweepArray" THEN Flatten(values) ELSE values

AllFrequency(sw) == Gather(sw, [i \in DOMAIN sw.streams |-> frequency(sw.streams[i])])
AllPoint(sw) == Gather(sw, [i \in DOMAIN sw.streams |-> s21_point_of(sw.streams[i])])
AllPointError(sw) == Gather(sw, [i \in DOMAIN sw.streams |-> s21_point_error_of(sw.streams[i])])
AllRaw(sw) == Gather(sw, [i \in DOMAIN sw.streams |-> sw.streams[i].s21_raw])

\* The results numpy.argsort may give for f: the orders that sort it (which
\* one, among equal entries, the default sort does not promise).  Positions
\* count from 1 here.
Orders(n) == {p \in [1..n -> 1..n] : \A i, j \in 1..n : p[i] = p[j] => i = j}
ArgSorts(f) == {p \in Orders(Len(f)) : \A i \in 1..(Len(f) - 1) : f[p[i]] <= f[p[i + 1]]}

\* a[order]
Take(a, order) == [i \in DOMAIN order |-> a[order[i]]]

\* A mutant: the values are left in stream order
UnorderedValue(sw, name) ==
    CASE name = "_frequency" -> AllFrequency(sw)
      [] name = "_s21_point" -> AllPoint(sw)
      [] name = "_s21_point_error" -> AllPointError(sw)
      [] name = "_s21_raw" -> AllRaw(sw)

\* The bodies of SweepArray.frequency, s21_point, s21_point_error and s21_raw
\* (and of the same properties of SingleSweep), given the memoized order
OrderedValue(sw, name) ==
    CASE name = "_frequency" -> Take(AllFrequency(sw), sw.cache["_ascending_order"])
      [] name = "_s21_point" -> Take(AllPoint(sw), sw.cache["_ascending_order"])
      [] name = "_s21_point_error" -> Take(AllPointError(sw), sw.cache["_ascending_order"])
      [] name = "_s21_raw" -> Take(AllRaw(sw), sw.cache["_ascending_order"])

OrderedProperties == {"_frequency", "_s21_point", "_s21_point_error", "_s21_raw"}

\* memoized_property: the value is computed when the attribute is missing
\* and kept.  sw.has holds the names of the attributes that exist.
Memoize(sw, name, value) ==
    IF name \in sw.has THEN sw
    ELSE [sw EXCEPT !.has = @ \cup {name}, !.cache[name] = value]

\* SweepArray.ascending_order / SingleSweep.ascending_order; sorted is what
\* argsort gives if it is called
ascending_order(sw, sorted) == Memoize(sw, "_ascending_order", sorted)

\* Reading one of the ordered properties
ordered_property(sw, name, sorted) ==
    IF name \in sw.has THEN sw
    ELSE LET o == ascending_order(sw, sorted)
         IN  Memoize(o, name, OrderedValue(o, name))

\* np.any(np.diff(sizes))
AnyDiff(sizes) == \E i \in 1..(Len(sizes) - 1) : sizes[i + 1] - sizes[i] # 0

\* A mutant: the channel numbers are not compared
num_channels_unchecked(sw) ==
    IF Len(sw.streams) = 0 THEN Ok(0) ELSE Ok(Len(sw.streams[1].tone_index))

\* SweepArray.num_channels
num_channels(sw) ==
    LET sizes == [i \in DOMAIN sw.streams |-> Len(sw.streams[i].tone_index)]
    IN  IF AnyDiff(sizes) THEN Raised("ValueError")
        ELSE IF Len(sw.streams) = 0 THEN Ok(0)    \* IndexError caught
        ELSE Ok(Len(sw.streams[1].tone_index))

\* The ways to write n as a sum of sizes >= 1, in order
RECURSIVE Compositions(_)
Compositions(n) ==
    IF n = 0 THEN {<<>>}
    ELSE UNION {{<<k>> \o c : c \in Compositions(n - k)} : k \in 1..n}

\* A StreamArray of a sweep: its tones are first .. first + Len(bins) - 1 of
\* the sweep, tone t playing bin bins[t]; one sample per tone
SweepStreamArrayOf(first, bins) ==
    RoachStream("StreamArray", bins, [c \in DOMAIN bins |-> 1], [c \in DOMAIN bins |-> 0],
                [c \in DOMAIN bins |-> c - 1], [c \in DOMAIN bins |-> 10 + c], 0, 0,
                [c \in DOMAIN bins |-> Row(first + c - 1, 1)], TRUE, [period |-> 1],
                None, "state", "description")

\* A SingleStream of a sweep
SweepSingleStreamOf(tone, bin) ==
    RoachStream("SingleStream", <<bin>>, <<1>>, <<0>>, 0, 11, 0, 0,
                Row(tone, 1), TRUE, [period |-> 1], tone, "state", "description")

\* SweepArray.__init__ and SingleSweep.__init__; no memoized attribute exists
NewSweep(cls, streams) ==
    [class |-> cls, streams |-> streams, has |-> {},
     cache |-> [a \in OrderedProperties \cup {"_ascending_order"} |-> <<>>]]

Sum(sizes, upto) == LET RECURSIVE S(_)
                        S(i) == IF i = 0 THEN 0 ELSE sizes[i] + S(i - 1)
                    IN  S(upto)

InitSweep ==
    /\ IdleEpochs /\ IdleStartEpoch /\ IdlePipeline /\ IdleSweepStream /\ IdleStream /\ IdleSpectra /\ IdleDeglitch
    /\ \E n \in 0..MaxTones : \E bins \in [1..n -> 1..MaxBin] :
          \/ \E sizes \in Compositions(n) :
                sweep_array = NewSweep("SweepArray",
                    [i \in DOMAIN sizes |->
                        SweepStreamArrayOf(Sum(sizes, i - 1),
                                           SubSeq(bins, Sum(sizes, i - 1) + 1, Sum(sizes, i)))])
          \/ sweep_array = NewSweep("SingleSweep",
                    [i \in 1..n |-> SweepSingleStreamOf(i - 1, bins[i])])
    /\ num_channels_read = Raised("not read")

\* What argsort may return when ascending_order computes it; it is not
\* called when the order is memoized
SortedNow(sw) ==
    IF "_ascending_order" \in sw.has THEN {sw.cache["_ascending_order"]}
    ELSE ArgSorts(AllFrequency(sw))

\* sweep_array.num_channels
ReadNumChannels ==
    /\ sweep_array.class = "SweepArray"
    /\ num_channels_read' = num_channels(sweep_array)
    /\ UNCHANGED <<sweep_array, notSweep>>

\* sweep_array.ascending_order.  np.concatenate of no arrays raises
\* ValueError, and nothing is memoized.
ReadAscendingOrder ==
    /\ sweep_array.class = "SweepArray" => Len(sweep_array.streams) > 0
    /\ \E sorted \in SortedNow(sweep_array) :
          sweep_array' = ascending_order(sweep_array, sorted)
    /\ UNCHANGED <<num_channels_read, notSweep>>

\* sweep_array.frequency, s21_point, s21_point_error, s21_raw
ReadOrdered(name) ==
    /\ sweep_array.class = "SweepArray" => Len(sweep_array.streams) > 0
    /\ name = "_s21_raw" => Len(sweep_array.streams) > 0     \* np.vstack of nothing raises
    /\ \E sorted \in SortedNow(sweep_array) :
          sweep_array' = ordered_property(sweep_array, name, sorted)
    /\ UNCHANGED <<num_channels_read, notSweep>>

NextSweep ==
    \/ ReadNumChannels
    \/ ReadAscendingOrder
    \/ \E name \in OrderedProperties : ReadOrdered(name)

\* The tone a value of one of the ordered properties belongs to, and the
\* frequency of a tone (tones are numbered from 0 over the whole sweep)
ToneOf(name, v) ==
    CASE name = "_s21_raw" -> v[1].ch
      [] name \in {"_s21_point", "_s21_point_error"} -> v.row[1].ch
FrequencyOfTone(sw, t) == AllFrequency(sw)[t + 1]

NumTones(sw) == Len(AllFrequency(sw))

\* C6: frequency is non-decreasing and holds every tone's frequency once;
\* s21_point[i], s21_point_error[i] and s21_raw[i] are the values of one
\* tone, whose frequency is frequency[i]; each property holds every tone once.
C6_AscendingOrder ==
    LET sw == sweep_array
        n == NumTones(sw)
        values == {name \in sw.has : name \in {"_s21_point", "_s21_point_error", "_s21_raw"}}
    IN  /\ "_frequency" \in sw.has =>
              /\ Len(sw.cache["_frequency"]) = n
              /\ \A i \in 1..(n - 1) : sw.cache["_frequency"][i] <= sw.cache["_frequency"][i + 1]
              /\ \A f \in 1..MaxBin :
                    Cardinality({i \in 1..n : sw.cache["_frequency"][i] = f})
                        = Cardinality({i \in 1..n : AllFrequency(sw)[i] = f})
        /\ \A name \in values :
              /\ Len(sw.cache[name]) = n
              /\ {ToneOf(name, sw.cache[name][i]) : i \in 1..n} = 0..(n - 1)
              /\ \A i \in 1..(n - 1) :
                    FrequencyOfTone(sw, ToneOf(name, sw.cache[name][i]))
                        <= FrequencyOfTone(sw, ToneOf(name, sw.cache[name][i + 1]))
              /\ "_frequency" \in sw.has =>
                    \A i \in 1..n :
                        FrequencyOfTone(sw, ToneOf(name, sw.cache[name][i])) = sw.cache["_frequency"][i]
              /\ name = "_s21_point" => \A i \in 1..n :
                    sw.cache[name][i] = MeanOf(<<[ch |-> ToneOf(name, sw.cache[name][i]), k |-> 0]>>)
        /\ \A a, b \in values : \A i \in 1..n :
              ToneOf(a, sw.cache[a][i]) = ToneOf(b, sw.cache[b][i])

\* C6's case: all four properties read on a SweepArray of several stream
\* arrays whose tones are not in frequency order and of which two share a frequency
C6_Witness ==
    /\ sweep_array.class = "SweepArray"
    /\ Len(sweep_array.streams) >= 2
    /\ OrderedProperties \subseteq sweep_array.has
    /\ sweep_array.cache["_frequency"] # AllFrequency(sweep_array)
    /\ \E i \in 1..(NumTones(sweep_array) - 1) :
          sweep_array.cache["_frequency"][i] = sweep_array.cache["_frequency"][i + 1]

\* C8: num_channels is 0 without stream arrays, the common number of tones
\* when all stream arrays have the same, and raises ValueError when two
\* stream arrays differ.
C8_NumChannels ==
    LET streams == sweep_array.streams
        sizes == {Len(streams[i].tone_index) : i \in DOMAIN streams}
    IN  num_channels_read # Raised("not read") =>
            /\ streams = <<>> => num_channels_read = Ok(0)
            /\ Cardinality(sizes) = 1 => \A n \in sizes : num_channels_read = Ok(n)
            /\ Cardinality(sizes) > 1 => num_channels_read = Raised("ValueError")

\* C8's case: num_channels read where two stream arrays differ
C8_Witness ==
    /\ num_channels_read = Raised("ValueError")
    /\ \E i, j \in DOMAIN sweep_array.streams :
          Len(sweep_array.streams[i].tone_index) # Len(sweep_array.streams[j].tone_index)

-----------------------------------------------------------------------------
(* SweepStreamArray *)

\* A mutant: the channel numbers are not compared
SweepStreamArray_unchecked(sweep_array_, stream_array) ==
    Ok([sweep_array |-> sweep_array_, stream_array |-> stream_array,
        state |-> "state", description |-> "description"])

\* SweepStreamArray.__init__: the object, or the exception raised (the
\* ValueError of num_channels passes through)
SweepStreamArray(sweep_array_, stream_array) ==
    LET n == num_channels(sweep_array_)
    IN  IF n.tag # "ok" THEN Raised(n.tag)
        ELSE IF n.value # Len(stream_array.tone_index) THEN Raised("MeasurementError")
        ELSE Ok([sweep_array |-> sweep_array_, stream_array |-> stream_array,
                 state |-> "state", description |-> "description"])

\* SweepStreamArray.epochs(start, stop)
ssa_epochs(self, start, stop) ==
    LET e == epochs(self.stream_array, start, stop)
    IN  IF e.tag # "ok" THEN Raised(e.tag)
        ELSE SweepStreamArray(self.sweep_array, e.value)

InitSweepStream ==
    /\ IdleStartEpoch /\ IdlePipeline /\ IdleStream /\ IdleSpectra /\ IdleDeglitch
    /\ \E n \in 0..MaxTones : \E sizes \in Compositions(n) :
          sweep_array = NewSweep("SweepArray",
              [i \in DOMAIN sizes |->
                  SweepStreamArrayOf(Sum(sizes, i - 1), [c \in 1..sizes[i] |-> 1])])
    /\ num_channels_read = Raised("not read")
    /\ \E nch \in 1..MaxChannels, n \in 0..MaxSamples : stream = NewStreamArray(nch, 0, 1, n)
    /\ calls = <<>>
    /\ ssa = Raised("none")
    /\ ssa_last = [op |-> "none", tag |-> "none", before |-> Raised("none")]

\* SweepStreamArray(sweep_array, stream)
NewSweepStreamArray ==
    LET r == SweepStreamArray(sweep_array, stream)
    IN  /\ ssa' = IF r.tag = "ok" THEN r ELSE ssa
        /\ ssa_last' = [op |-> "init", tag |-> r.tag, before |-> ssa]
        /\ UNCHANGED <<notSweepStream>>

\* ssa = ssa.epochs(start, stop)
CallSweepStreamEpochs(start, stop) ==
    /\ ssa.tag = "ok"
    /\ LET r == ssa_epochs(ssa.value, start, stop)
       IN  /\ ssa' = IF r.tag = "ok" THEN r ELSE ssa
           /\ ssa_last' = [op |-> "epochs", tag |-> r.tag, before |-> ssa]
    /\ UNCHANGED <<notSweepStream>>

NextSweepStream ==
    \/ NewSweepStreamArray
    \/ \E start \in 0..MaxTime, stop \in 0..MaxTime : CallSweepStreamEpochs(start, stop)

\* C7: every SweepStreamArray has sweep_array.num_channels equal to the
\* number of tones of its stream_array; the constructor raises
\* MeasurementError when they differ; epochs returns an object with the same
\* sweep_array and as many channels.
C7_ChannelsAgree ==
    /\ ssa.tag = "ok" =>
          /\ \A i \in DOMAIN ssa.value.sweep_array.streams :
                Len(ssa.value.sweep_array.streams[i].tone_index) = Len(ssa.value.stream_array.tone_index)
          /\ num_channels(ssa.value.sweep_array).tag = "ok"
          /\ num_channels(ssa.value.sweep_array).value = Len(ssa.value.stream_array.tone_index)
    /\ ssa_last.op = "init" =>
          LET sizes == {Len(sweep_array.streams[i].tone_index) : i \in DOMAIN sweep_array.streams}
          IN  /\ (sizes = {} \/ (Cardinality(sizes) = 1 /\ sizes # {Len(stream.tone_index)}))
                    => ssa_last.tag = "MeasurementError"
              /\ sizes = {Len(stream.tone_index)} => ssa_last.tag = "ok"
    /\ (ssa_last.op = "epochs" /\ ssa_last.tag = "ok") =>
          /\ ssa.value.sweep_array = ssa_last.before.value.sweep_array
          /\ Len(ssa.value.stream_array.tone_index) = Len(ssa_last.before.value.stream_array.tone_index)
          /\ ssa.value.stream_array.tone_index = ssa_last.before.value.stream_array.tone_index

\* C7's case: epochs of a SweepStreamArray returned a shorter one
C7_Witness ==
    /\ ssa_last.op = "epochs" /\ ssa_last.tag = "ok"
    /\ Len(ssa.value.sweep_array.streams) >= 2
    /\ NumSamples(ssa.value.stream_array) < NumSamples(ssa_last.before.value.stream_array)

-----------------------------------------------------------------------------
(* StreamArray.__getitem__ and stream *)

\* a[n] for any Python index n of a: negative indices count from the end
PyIndex(a, n) == IF n >= 0 THEN a[n + 1] ELSE a[Len(a) + n + 1]

\* A mutant: the channel number is taken for the tone index
getitem_number_as_tone_index(self, number) ==
    IF number >= Len(self.tone_index) \/ number < 0 - Len(self.tone_index)
    THEN Raised("IndexError")
    ELSE Ok(RoachStream("SingleStream", self.tone_bin, self.tone_amplitude, self.tone_phase,
                        number, PyIndex(self.filterbank_bin, number),
                        self.epoch, self.sequence_start_number, PyIndex(self.s21_raw, number),
                        self.data_demodulated, self.roach_state, number, self.state,
                        self.description))

\* StreamArray.__getitem__(number), which stream(number) returns
getitem(self, number) ==
    IF number >= Len(self.tone_index) \/ number < 0 - Len(self.tone_index)
    THEN Raised("IndexError")
    ELSE Ok(RoachStream("SingleStream", self.tone_bin, self.tone_amplitude, self.tone_phase,
                        PyIndex(self.tone_index, number), PyIndex(self.filterbank_bin, number),
                        self.epoch, self.sequence_start_number, PyIndex(self.s21_raw, number),
                        self.data_demodulated, self.roach_state, number, self.state,
                        self.description))

\* The tone_index arrays: nch different indices into tone_bin
ToneIndexes(nch, nbins) ==
    {t \in [1..nch -> 0..(nbins - 1)] : \A i, j \in 1..nch : t[i] = t[j] => i = j}

InitStream ==
    /\ IdleStartEpoch /\ IdlePipeline /\ IdleSweep /\ IdleSweepStream /\ IdleSpectra /\ IdleDeglitch
    /\ \E nch \in 1..MaxChannels, e \in 0..MaxEpoch, n \in 0..MaxSamples, demodulated \in BOOLEAN :
       \E tone_index \in ToneIndexes(nch, MaxChannels + 1) :
          stream = RoachStream("StreamArray", [b \in 1..(MaxChannels + 1) |-> 100 + b],
                               [b \in 1..(MaxChannels + 1) |-> b], [b \in 1..(MaxChannels + 1) |-> 0],
                               tone_index, [c \in 1..nch |-> 10 + 2 * tone_index[c]], e, 7 + e,
                               [c \in 1..nch |-> Row(c - 1, n)], demodulated, [period |-> 1],
                               None, "state", "description")
    /\ calls = <<>>
    /\ item = [number |-> 0, before |-> stream, result |-> Raised("none")]

\* stream.stream(number), stream[number]
CallStream(number) ==
    /\ item' = [number |-> number, before |-> stream, result |-> getitem(stream, number)]
    /\ UNCHANGED <<stream, notStream>>

NextStream == \E number \in (0 - MaxChannels - 1)..MaxChannels : CallStream(number)

\* C9: stream(n) for a valid n is a SingleStream with row n of s21_raw,
\* entry n of tone_index and filterbank_bin, number n and the array's other
\* fields; the array is as it was before.
C9_StreamOfArray ==
    item.result.tag = "ok" =>
        LET n == item.number
            ch == IF n >= 0 THEN n ELSE Len(stream.tone_index) + n
            r == item.result.value
        IN  /\ ch \in 0..(Len(stream.tone_index) - 1)
            /\ r.class = "SingleStream"
            /\ Len(r.s21_raw) = NumSamples(stream)
            /\ \A i \in DOMAIN r.s21_raw : r.s21_raw[i] = [ch |-> ch, k |-> i - 1]
            /\ r.s21_raw = stream.s21_raw[ch + 1]
            /\ r.tone_index = stream.tone_index[ch + 1]
            /\ r.filterbank_bin = stream.filterbank_bin[ch + 1]
            /\ r.number = n
            /\ r.tone_bin = stream.tone_bin
            /\ r.tone_amplitude = stream.tone_amplitude
            /\ r.tone_phase = stream.tone_phase
            /\ r.epoch = stream.epoch
            /\ r.sequence_start_number = stream.sequence_start_number
            /\ r.data_demodulated = stream.data_demodulated
            /\ r.roach_state = stream.roach_state
            /\ r.state = stream.state
            /\ r.description = stream.description
            /\ stream = item.before

\* C9's case: the last channel of an array of several channels, with samples
C9_Witness ==
    /\ item.result.tag = "ok"
    /\ item.number = Len(stream.tone_index) - 1
    /\ item.number >= 1
    /\ NumSamples(stream) >= 2
    /\ stream.tone_index[item.number + 1] # item.number

-----------------------------------------------------------------------------
(* SingleSweepStream.set_S: the frequencies of the spectral densities *)

\* floor(log2(n)) for n >= 1
RECURSIVE FloorLog2(_)
FloorLog2(n) == IF n < 2 THEN 0 ELSE 1 + FloorLog2(n \div 2)

\* int(2 ** e): 0 for e < 0
IntPow2(e) == IF e < 0 THEN 0 ELSE 2 ^ e

\* NFFT when set_S is given None: int(2**(floor(log2(size)) - 3))
DefaultNFFT(size) == IntPow2(FloorLog2(size) - 3)

\* The frequencies mlab.psd returns for a real series: k * Fs / NFFT for
\* k = 0 .. NFFT // 2 (to (NFFT - 1) // 2 when NFFT is odd), each kept as the
\* fraction num / den
PsdFrequencies(Fs, NFFT) ==
    LET numFreqs == IF NFFT % 2 = 1 THEN (NFFT + 1) \div 2 ELSE NFFT \div 2 + 1
    IN  [i \in 1..numFreqs |-> [num |-> (i - 1) * Fs, den |-> NFFT]]

\* A mutant: the DC and Nyquist bins are kept
KeptBins(f) == f

\* f[1:-1]
DropFirstAndLast(f) == SubSeq(f, 2, Len(f) - 1)

\* SingleSweepStream.set_S(NFFT=None, binned=False) without masking_function:
\* the attributes that do not depend on the data
set_S_frequencies(size, Fs) ==
    LET NFFT == DefaultNFFT(size)
    IN  IF NFFT = 0 THEN Raised("ValueError")     \* mlab.psd refuses NFFT = 0
        ELSE LET f == DropFirstAndLast(PsdFrequencies(Fs, NFFT))
             IN  [tag |-> "ok", value |-> None, NFFT |-> NFFT, _S_edges |-> None,
                  _S_counts |-> [i \in DOMAIN f |-> 1], _S_frequency |-> f]

InitSpectra ==
    /\ IdleEpochs /\ IdleStartEpoch /\ IdlePipeline /\ IdleSweep /\ IdleSweepStream /\ IdleStream /\ IdleDeglitch
    /\ \E size \in 1..MaxSize, rate \in 1..MaxRate : samples = [size |-> size, rate |-> rate]
    /\ spectra = Raised("not set")

\* sss.set_S(binned=False)
CallSetSUnbinned ==
    /\ spectra' = set_S_frequencies(samples.size, samples.rate)
    /\ UNCHANGED <<samples, notSpectra>>

NextSpectra == CallSetSUnbinned

\* a fraction compared with the Nyquist frequency Fs / 2
BelowNyquist(f, Fs) == 2 * f.num < Fs * f.den
IsNyquist(f, Fs) == 2 * f.num = Fs * f.den

-----------------------------------------------------------------------------
(* SingleSweepStream.deglitch *)

\* The time series of a stream of n samples: sample k of the series called
\* name is the record [name, k], so that the samples of x_raw, q_raw and
\* stream_s21_normalized differ from each other and keep their identity.
\* replaced marks the value that masking put in the place of a sample.
Series(name, n) == [i \in 1..n |-> [series |-> name, k |-> i - 1, replaced |-> FALSE]]

\* The private attributes of the SingleSweepStream that deglitch reads
SeriesAttrs == RawAttrs \cup {"_stream_s21_normalized"}

\* A SingleSweepStream.  data holds what resonator.invert and
\* resonator.remove_background give for its stream; invertible is FALSE when
\* resonator.invert raises.  has holds the names of the private attributes
\* that exist (hasattr), attr their values.
NewSingleSweepStream(data, invertible) ==
    [data |-> data, invertible |-> invertible, has |-> {},
     attr |-> [a \in SeriesAttrs \cup DeglitchAttrs |->
                  IF a = "_number_of_masked_samples" THEN 0 ELSE <<>>]]

\* The outcome of a method: the object as the method left it, and whether
\* the method returned or raised
Returned(o) == [tag |-> "returned", o |-> o]
Raises(o) == [tag |-> "raised", o |-> o]

\* setattr(self, name, value)
SetAttr(o, name, value) == [o EXCEPT !.has = @ \cup {name}, !.attr[name] = value]

\* SingleSweepStream.stream_s21_normalized (a memoized_property): the object
\* after the read
series_s21_normalized(o) ==
    IF "_stream_s21_normalized" \in o.has THEN o
    ELSE SetAttr(o, "_stream_s21_normalized", o.data.s21)

\* SingleSweepStream.set_raw_q_and_x
series_set_raw_q_and_x(o) ==
    LET n == series_s21_normalized(o)
    IN  IF ~o.invertible THEN Raises(n)
        ELSE Returned(SetAttr(SetAttr(n, "_x_raw", o.data.x_raw), "_q_raw", o.data.q_raw))

\* SingleSweepStream.x_raw and q_raw (name is "_x_raw" or "_q_raw")
series_raw(o, name) == IF name \in o.has THEN Returned(o) ELSE series_set_raw_q_and_x(o)

\* The reads of self.x_raw, self.q_raw and self.stream_s21_normalized, in
\* this order
ReadSeries(o) ==
    LET x == series_raw(o, "_x_raw")
        q == series_raw(x.o, "_q_raw")
    IN  IF x.tag = "raised" THEN x
        ELSE IF q.tag = "raised" THEN q
        ELSE Returned(series_s21_normalized(q.o))

\* mask.sum() of a boolean array
CountTrue(mask) == Cardinality({i \in DOMAIN mask : mask[i]})

\* np.zeros(shape, dtype='bool') for the shape of a one-dimensional array
Zeros(n) == [i \in 1..n |-> FALSE]

\* despike.deglitch_mask_mad(x, ...): the masks it may return when it does
\* not raise: one boolean per sample, any of them flagged
deglitch_mask_mad(x) == [DOMAIN x -> BOOLEAN]

\* What masking makes of one array: the samples that are not masked are
\* kept, a masked sample is replaced
MaskedArray(a, mask) ==
    [i \in DOMAIN a |-> IF mask[i] THEN [a[i] EXCEPT !.replaced = TRUE] ELSE a[i]]

\* despike.mask_glitches([x, q, s21], mask, ...): the list of three arrays
\* it returns when it does not raise
mask_glitches(x, q, s21, mask) ==
    <<MaskedArray(x, mask), MaskedArray(q, mask), MaskedArray(s21, mask)>>

\* The failures of the try block of deglitch: none, an exception of
\* despike.deglitch_mask_mad, an exception of despike.mask_glitches
DespikeFailures == {"no", "detection", "masking"}

\* The try block of deglitch.  raises says which despike call raises, mask
\* is what detection returns if it returns.  The block raises where the
\* exception passes, with the attributes set up to there.
deglitch_try(o, raises, mask) ==
    LET x == series_raw(o, "_x_raw")
        m == SetAttr(x.o, "_glitch_mask", mask)
        n == SetAttr(m, "_number_of_masked_samples", CountTrue(m.attr["_glitch_mask"]))
        r == ReadSeries(n)
        masked == mask_glitches(r.o.attr["_x_raw"], r.o.attr["_q_raw"],
                                r.o.attr["_stream_s21_normalized"], r.o.attr["_glitch_mask"])
        mx == SetAttr(r.o, "_x", masked[1])
        mq == SetAttr(mx, "_q", masked[2])
    IN  IF x.tag = "raised" THEN x
        ELSE IF raises = "detection" THEN Raises(x.o)
        ELSE IF r.tag = "raised" THEN r
        ELSE IF raises = "masking" THEN Raises(r.o)
        ELSE Returned(SetAttr(mq, "_stream_s21_normalized_deglitched", masked[3]))

\* A mutant: the handler falls back to the raw series and leaves the mask
\* and the count as the try block left them
deglitch_except_keeps_mask(o) ==
    LET r == ReadSeries(o)
        mx == SetAttr(r.o, "_x", r.o.attr["_x_raw"])
        mq == SetAttr(mx, "_q", r.o.attr["_q_raw"])
    IN  IF r.tag = "raised" THEN r
        ELSE Returned(SetAttr(mq, "_stream_s21_normalized_deglitched",
                              r.o.attr["_stream_s21_normalized"]))

\* The except block of deglitch; it raises when reading x_raw or q_raw does
deglitch_except(o) ==
    LET x == series_raw(o, "_x_raw")
        m == SetAttr(x.o, "_glitch_mask", Zeros(Len(x.o.attr["_x_raw"])))
        n == SetAttr(m, "_number_of_masked_samples", CountTrue(m.attr["_glitch_mask"]))
        r == ReadSeries(n)
        mx == SetAttr(r.o, "_x", r.o.attr["_x_raw"])
        mq == SetAttr(mx, "_q", r.o.attr["_q_raw"])
    IN  IF x.tag = "raised" THEN x
        ELSE IF r.tag = "raised" THEN r
        ELSE Returned(SetAttr(mq, "_stream_s21_normalized_deglitched",
                              r.o.attr["_stream_s21_normalized"]))

\* SingleSweepStream.deglitch(): the try block, and the except block when
\* the try block raised.  The logging that follows changes nothing (numpy
\* divides by a size of zero with a warning, not an exception).
deglitch_series(o, raises, mask) ==
    LET t == deglitch_try(o, raises, mask)
    IN  IF t.tag = "returned" THEN t ELSE deglitch_except(t.o)

\* SingleSweepStream.glitch_mask, number_of_masked_samples, x, q and
\* stream_s21_normalized_deglitched: deglitch() runs when the attribute is
\* missing
deglitch_property(o, name, raises, mask) ==
    IF name \in o.has THEN Returned(o) ELSE deglitch_series(o, raises, mask)

\* RoachMeasurement._delete_memoized_property_caches on the
\* SingleSweepStream: every attribute here is named after a property
delete_series_caches(o) == NewSingleSweepStream(o.data, o.invertible)

\* What the despike calls of one deglitch() may do on the series of o:
\* detection raises, or it returns a mask and masking raises or returns
DespikeOutcomes(o) ==
    {[raises |-> "detection", mask |-> <<>>]} \cup
    {[raises |-> f, mask |-> k] :
        f \in DespikeFailures \ {"detection"}, k \in deglitch_mask_mad(o.data.x_raw)}

\* The record of an operation: op is the operation, ran whether deglitch()
\* ran in it, tag whether it returned, raises the despike call that raised
\* and detected the mask that detection returned (when it was reached)
Last(op, ran, res, raises, mask) ==
    [op |-> op, ran |-> ran, tag |-> res.tag,
     raises |-> IF ran THEN raises ELSE "no",
     detected |-> IF ran /\ raises # "detection" /\ "_x_raw" \in res.o.has THEN mask ELSE <<>>]

InitDeglitch ==
    /\ IdleEpochs /\ IdleStartEpoch /\ IdlePipeline /\ IdleSweep /\ IdleSweepStream /\ IdleStream /\ IdleSpectra
    /\ \E n \in 0..MaxSeries, invertible \in BOOLEAN :
            glitchy = NewSingleSweepStream([x_raw |-> Series("x", n), q_raw |-> Series("q", n),
                                            s21 |-> Series("s21", n)], invertible)
    /\ deglitch_last = [op |-> "none", ran |-> FALSE, tag |-> "returned", raises |-> "no", detected |-> <<>>]

\* sss.deglitch()
CallDeglitchSeries(raises, mask) ==
    LET res == deglitch_series(glitchy, raises, mask)
    IN  /\ glitchy' = res.o
        /\ deglitch_last' = Last("deglitch", TRUE, res, raises, mask)
        /\ UNCHANGED notDeglitch

\* sss.glitch_mask, sss.number_of_masked_samples, sss.x, sss.q,
\* sss.stream_s21_normalized_deglitched
ReadDeglitchProperty(name, raises, mask) ==
    LET res == deglitch_property(glitchy, name, raises, mask)
    IN  /\ glitchy' = res.o
        /\ deglitch_last' = Last(name, name \notin glitchy.has, res, raises, mask)
        /\ UNCHANGED notDeglitch

\* sss.x_raw, sss.q_raw, sss.stream_s21_normalized
ReadSeriesProperty ==
    LET res == ReadSeries(glitchy)
    IN  /\ glitchy' = res.o
        /\ deglitch_last' = Last("series", FALSE, res, "no", <<>>)
        /\ UNCHANGED notDeglitch

\* sweep.fit_resonator() of a sweep whose _parent is the SingleSweepStream
DeleteSeriesCaches ==
    /\ glitchy' = delete_series_caches(glitchy)
    /\ deglitch_last' = Last("delete", FALSE, Returned(glitchy'), "no", <<>>)
    /\ UNCHANGED notDeglitch

NextDeglitch ==
    \/ \E d \in DespikeOutcomes(glitchy) : CallDeglitchSeries(d.raises, d.mask)
    \/ \E name \in DeglitchAttrs, d \in DespikeOutcomes(glitchy) :
            ReadDeglitchProperty(name, d.raises, d.mask)
    \/ ReadSeriesProperty
    \/ DeleteSeriesCaches

\* C11: after deglitch() returns, _glitch_mask, _number_of_masked_samples,
\* _x, _q and _stream_s21_normalized_deglitched are all set and
\* number_of_masked_samples is the number of True entries of glitch_mask;
\* and when glitch detection or masking raised, the mask is all False with
\* the shape of x_raw, number_of_masked_samples is 0, and x, q and
\* stream_s21_normalized_deglitched equal x_raw, q_raw and
\* stream_s21_normalized.
C11_DeglitchSetsAll ==
    (deglitch_last.ran /\ deglitch_last.tag = "returned") =>
        /\ DeglitchAttrs \subseteq glitchy.has
        /\ glitchy.attr["_number_of_masked_samples"] = CountTrue(glitchy.attr["_glitch_mask"])
        /\ deglitch_last.raises # "no" =>
            /\ SeriesAttrs \subseteq glitchy.has
            /\ DOMAIN glitchy.attr["_glitch_mask"] = DOMAIN glitchy.attr["_x_raw"]
            /\ \A i \in DOMAIN glitchy.attr["_glitch_mask"] : glitchy.attr["_glitch_mask"][i] = FALSE
            /\ glitchy.attr["_number_of_masked_samples"] = 0
            /\ glitchy.attr["_x"] = glitchy.attr["_x_raw"]
            /\ glitchy.attr["_q"] = glitchy.attr["_q_raw"]
            /\ glitchy.attr["_stream_s21_normalized_deglitched"] = glitchy.attr["_stream_s21_normalized"]

\* C11's case: detection flagged a glitch, masking raised, and deglitch()
\* returned
C11_Witness ==
    /\ deglitch_last.ran /\ deglitch_last.tag = "returned"
    /\ deglitch_last.raises = "masking"
    /\ CountTrue(deglitch_last.detected) >= 1
    /\ Len(glitchy.attr["_x"]) >= 2

-----------------------------------------------------------------------------
(* Specifications *)

SpecEpochs == InitEpochs /\ [][NextEpochs]_vars

SpecStartEpoch == InitStartEpoch /\ [][NextStartEpoch]_vars

SpecPipeline == InitPipeline /\ [][NextPipeline]_vars

SpecSweep == InitSweep /\ [][NextSweep]_vars

SpecSweepStream == InitSweepStream /\ [][NextSweepStream]_vars

SpecStream == InitStream /\ [][NextStream]_vars

SpecSpectra == InitSpectra /\ [][NextSpectra]_vars

SpecDeglitch == InitDeglitch /\ [][NextDeglitch]_vars

====
